---------------------------- MODULE Spec2Model ----------------------------
(***************************************************************************)
(* Langevin (BBK) dynamics and Metropolis Monte-Carlo sampling of the HF   *)
(* bond length, after HF_AverageBondLengthCalculations_preCodeRemoval.     *)
(*                                                                         *)
(* Units.  Bond lengths live on an integer grid, energies are integers,    *)
(* and np.exp(-E/temperature) is computed to base 2, so that every value   *)
(* the notebook computes is an integer or a ratio of two integers.  A      *)
(* float is a record: a finite multiple of the smallest positive float,    *)
(* an infinity or a nan, with the overflow and underflow of np.exp.        *)
(* Arrays keep the notebook's 0-based indices.                             *)
(***************************************************************************)
EXTENDS Integers, Sequences, FiniteSets, TLC

(***************************************************************************)
(* Bounds of the model.                                                    *)
(***************************************************************************)
\* N_updates ranges over 1 .. MaxUpdates
MaxUpdates == 3
\* np.random.uniform() draws u = n / UDen, n in 0 .. UDen-1
UDen == 4
\* an energy sample lies 0 .. MaxLevel steps above the lowest level
MaxLevel == 2

(***************************************************************************)
(* Program constants, in model units.                                      *)
(***************************************************************************)
\* r_fine = np.linspace(0.5*1.89, 2.3*1.89, 200): the fitted interval
RMin == 3
RMax == 7
mH == 12
mF == 24
mu == (mH * mF) \div (mH + mF)
dt == 2
temperature == 2
gamma == 2
\* the ground-state velocity of cell 3
v == 1
\* the window of the reported Langevin mean ("last 30000 steps")
Window == 2
\* np.exp: 2^x is finite for x <= ExpMax, positive for x >= -ExpBias
ExpMax == 10
ExpBias == 6

Pow2(n) == IF n <= 0 THEN 1 ELSE 2 ^ n

ISqrt(n) == CHOOSE s \in 0..n : s * s <= n /\ n < (s + 1) * (s + 1)

(***************************************************************************)
(* The potential energy surface: the cubic spline through                  *)
(* (r_array_au, E_array), a steep wall below the minimum and a softer      *)
(* rise above it, extrapolated outside the fitted interval.                *)
(***************************************************************************)
E_spline(r) ==
    IF r < 4 THEN 4 * (r - 4) * (r - 4) - 108
             ELSE 2 * (r - 4) * (r - 4) - 108

\* fE = E_spline.derivative()
fE(r) == IF r < 4 THEN 8 * (r - 4) ELSE 4 * (r - 4)

\* cE = fE.derivative()
cE(r) == IF r < 4 THEN 8 ELSE 4

r_fine == RMin..RMax
\* E_fine = E_spline(r_fine), an array over the grid
E_fine == [r \in r_fine |-> E_spline(r)]

\* r_fine[j]: the grid is increasing, and an array over the grid is indexed
\* here by its grid point
GridPoint(j) == RMin + j

RECURSIVE ScanMin(_, _, _, _)
\* the left-to-right scan of E over j .. hi that keeps the entry seen so
\* far, best, unless a later one is strictly smaller
ScanMin(E, j, hi, best) ==
    IF j > hi THEN best
    ELSE ScanMin(E, j + 1, hi, IF E[j] < E[best] THEN j ELSE best)

\* np.argmin returning the last index of the minimum: the scan run over the
\* array read backwards
ArgMinLastOfTies(E) ==
    RMax - ScanMin([r \in r_fine |-> E[RMin + RMax - r]], RMin + 1, RMax, RMin)

\* np.argmin(E) for an array over the grid, as a 0-based index
ArgMin(E) == ScanMin(E, RMin + 1, RMax, RMin) - RMin

\* min(E) for an array over the grid
MinOf(E) == E[ScanMin(E, RMin + 1, RMax, RMin)]

\* minE = min(E_fine)
minE == MinOf(E_fine)

\* Req_idx = np.argmin(E_fine): the first index of the minimum
Req_idx == ArgMin(E_fine)
r_eq == GridPoint(Req_idx)
k == cE(r_eq)

\* E_spline_shifted: the spline through np.add(E_array, 100)
E_spline_shifted(r) == E_spline(r) + 100

\* E_shifted = E_fine + 100
E_shifted == [r \in r_fine |-> E_fine[r] + 100]

(***************************************************************************)
(* Floating point.                                                         *)
(***************************************************************************)
Fin(n) == [kind |-> "fin", n |-> n]
FInf == [kind |-> "inf", n |-> 0]
FNaN == [kind |-> "nan", n |-> 0]
FMax == Pow2(ExpMax + ExpBias)

\* np.exp(-e / temperature), to base 2
ExpBoltzmann(e) ==
    LET x == (0 - e) \div temperature
    IN  IF x > ExpMax THEN FInf
        ELSE IF x < 0 - ExpBias THEN Fin(0)
        ELSE Fin(Pow2(x + ExpBias))

\* a + b
FAdd(a, b) ==
    IF a.kind = "nan" \/ b.kind = "nan" THEN FNaN
    ELSE IF a.kind = "inf" \/ b.kind = "inf" THEN FInf
    ELSE IF a.n + b.n > FMax THEN FInf
    ELSE Fin(a.n + b.n)

\* r * a, for a bond length r > 0
FScale(r, a) ==
    IF a.kind = "nan" THEN FNaN
    ELSE IF a.kind = "inf" THEN FInf
    ELSE IF r * a.n > FMax THEN FInf
    ELSE Fin(r * a.n)

Ratio(kind, num, den) == [kind |-> kind, num |-> num, den |-> den]

\* a / b: the quotient as a ratio of integers, an infinity or a nan
FDiv(a, b) ==
    IF a.kind = "nan" \/ b.kind = "nan" THEN Ratio("nan", 0, 1)
    ELSE IF a.kind = "inf" THEN
        IF b.kind = "inf" THEN Ratio("nan", 0, 1) ELSE Ratio("inf", 0, 1)
    ELSE IF b.kind = "inf" THEN Ratio("fin", 0, 1)
    ELSE IF b.n = 0 THEN
        IF a.n = 0 THEN Ratio("nan", 0, 1) ELSE Ratio("inf", 0, 1)
    ELSE IF a.n > b.n * Pow2(ExpMax) THEN Ratio("inf", 0, 1)
    ELSE IF a.n * Pow2(ExpBias) < b.n THEN Ratio("fin", 0, 1)
    ELSE Ratio("fin", a.n, b.n)

\* n / UDen < q
ULess(n, q) ==
    IF q.kind = "nan" THEN FALSE
    ELSE IF q.kind = "inf" THEN TRUE
    ELSE n * q.den < UDen * q.num


(***************************************************************************)
(* The thermal average of cell 4.                                          *)
(***************************************************************************)
RECURSIVE SumWeights(_, _, _)
\* np.sum(np.exp(-E/temperature)) over the grid points lo .. hi
SumWeights(E, lo, hi) ==
    IF lo > hi THEN Fin(0)
    ELSE FAdd(ExpBoltzmann(E[lo]), SumWeights(E, lo + 1, hi))

RECURSIVE SumWeighted(_, _, _)
\* np.sum(np.multiply(r_fine, np.exp(-E/temperature)))
SumWeighted(E, lo, hi) ==
    IF lo > hi THEN Fin(0)
    ELSE FAdd(FScale(lo, ExpBoltzmann(E[lo])), SumWeighted(E, lo + 1, hi))

\* the average of r_fine under the Boltzmann weights of the energies E
ThermalAverage(E) ==
    FDiv(SumWeighted(E, RMin, RMax), SumWeights(E, RMin, RMax))

r_av == ThermalAverage(E_shifted)

(***************************************************************************)
(* The BBK integrator.                                                     *)
(***************************************************************************)
\* np.sqrt(2*temperature_val*gamma_val*mu/dt), the scale of a perturbation
RpScale(temperature_val, gamma_val, m, h) ==
    ISqrt((2 * temperature_val * gamma_val * m) \div h)

\* BBKUpdate with the drag of the current velocity left in a_fut
BBKUpdateDragInFuture(r_curr, v_curr, rp_curr, gamma_val, m, h, rp_fut) ==
    LET a_curr == ((0 - fE(r_curr)) + rp_curr) \div m - gamma_val * v_curr
        r_fut  == r_curr + v_curr * h + (a_curr * h * h) \div 2
        a_fut  == ((0 - fE(r_fut)) + rp_fut) \div m - gamma_val * v_curr
        v_fut  == (v_curr + ((a_curr + a_fut) * h) \div 2)
                      \div (1 + (gamma_val * h) \div 2)
    IN  <<r_fut, v_fut, rp_fut>>

\* BBKUpdate returning the perturbation it was given, not the one it drew
BBKUpdateReturnsCurrent(r_curr, v_curr, rp_curr, gamma_val, m, h, rp_fut) ==
    LET a_curr == ((0 - fE(r_curr)) + rp_curr) \div m - gamma_val * v_curr
        r_fut  == r_curr + v_curr * h + (a_curr * h * h) \div 2
        a_fut  == ((0 - fE(r_fut)) + rp_fut) \div m
        v_fut  == (v_curr + ((a_curr + a_fut) * h) \div 2)
                      \div (1 + (gamma_val * h) \div 2)
    IN  <<r_fut, v_fut, rp_curr>>

\* BBKUpdate keeping the position inside the fitted interval
BBKUpdateClamped(r_curr, v_curr, rp_curr, gamma_val, m, h, rp_fut) ==
    LET a_curr == ((0 - fE(r_curr)) + rp_curr) \div m - gamma_val * v_curr
        r_raw  == r_curr + v_curr * h + (a_curr * h * h) \div 2
        r_fut  == IF r_raw < RMin THEN RMin
                  ELSE IF r_raw > RMax THEN RMax ELSE r_raw
        a_fut  == ((0 - fE(r_fut)) + rp_fut) \div m
        v_fut  == (v_curr + ((a_curr + a_fut) * h) \div 2)
                      \div (1 + (gamma_val * h) \div 2)
    IN  <<r_fut, v_fut, rp_fut>>

\* the arithmetic of one BBK call that draws the perturbation rp_fut;
\* f_interp is fE
BBKUpdate(r_curr, v_curr, rp_curr, gamma_val, m, h, rp_fut) ==
    LET a_curr == ((0 - fE(r_curr)) + rp_curr) \div m - gamma_val * v_curr
        r_fut  == r_curr + v_curr * h + (a_curr * h * h) \div 2
        a_fut  == ((0 - fE(r_fut)) + rp_fut) \div m
        v_fut  == (v_curr + ((a_curr + a_fut) * h) \div 2)
                      \div (1 + (gamma_val * h) \div 2)
    IN  <<r_fut, v_fut, rp_fut>>

\* z is the np.random.normal(0,1) the call draws
BBK(r_curr, v_curr, rp_curr, gamma_val, temperature_val, m, h, z) ==
    BBKUpdate(r_curr, v_curr, rp_curr, gamma_val, m, h,
              RpScale(temperature_val, gamma_val, m, h) * z)

\* (E_spline(r) - minE) + 0.5*mu*v**2
TotalEnergy(r, vel) == (E_spline(r) - minE) + (mu * vel * vel) \div 2

\* mu*v**2
InstTemperature(vel) == mu * vel * vel

(***************************************************************************)
(* Inputs.                                                                 *)
(***************************************************************************)
\* np.random.normal(0,1) as drawn for a force perturbation
ForceDraws == {-1, 1}
\* np.random.normal(0,1) as drawn for a Metropolis trial move
StepDraws == {-1, 0, 1}
\* np.random.uniform(0.5*r_eq, 1.5*r_eq)
RInits == {r \in 0..(2 * r_eq) : 2 * r >= r_eq /\ 2 * r <= 3 * r_eq}
\* np.random.uniform(-v, v)
VInits == {0 - v, v}

(***************************************************************************)
(* Python slices and means.                                                *)
(***************************************************************************)
\* a slice bound as Python normalises it for an array of length len
PyIndex(j, len) ==
    IF j < 0 THEN (IF j + len < 0 THEN 0 ELSE j + len)
    ELSE IF j > len THEN len ELSE j

\* the indices of arr[start:stop] for an array of length len
PySlice(start, stop, len) ==
    {j \in 0..(len - 1) : PyIndex(start, len) <= j /\ j < PyIndex(stop, len)}

RECURSIVE SumOver(_, _)
SumOver(arr, idx) ==
    IF idx = {} THEN 0
    ELSE LET j == CHOOSE x \in idx : TRUE
         IN  arr[j] + SumOver(arr, idx \ {j})

\* np.mean(arr[idx] / 1.89), in Angstroms; nan for an empty slice
MeanAngstrom(arr, idx) ==
    IF idx = {} THEN Ratio("nan", 0, 1)
    ELSE Ratio("fin", 100 * SumOver(arr, idx), 189 * Cardinality(idx))

\* np.mean(arr[idx]); nan for an empty slice
Mean(arr, idx) ==
    IF idx = {} THEN Ratio("nan", 0, 1)
    ELSE Ratio("fin", SumOver(arr, idx), Cardinality(idx))

\* np.zeros(n)
Zeros(n) == [j \in 0..(n - 1) |-> 0]

(***************************************************************************)
(* State.                                                                  *)
(***************************************************************************)
VARIABLES
    pc,                \* the statement the notebook is at
    N_updates,
    r_init, v_init, rp_init,
    i,                 \* the loop index, shared by both loops
    r_vs_t, v_vs_t, e_vs_t, temp_vs_t, t_array,
    result_array,      \* the last BBK result [r, v, rp]
    bbk_args,          \* r_curr, v_curr, rp_curr of the last BBK call
    bbk_calls,         \* how many BBK calls were made
    rp_hist,           \* the perturbations drawn, one per draw
    mean_r,            \* the printed Langevin mean bond length
    r_accepted_array, num_accepted_r, r_prev,
    r_trial, p, u,     \* the last trial, its ratio and its uniform draw
    accepted,          \* whether the last trial was accepted
    r_av_mc,
    E_tab,             \* the array E_fine cell 2 works on
    eqcell             \* where cell 2 is, and minE, Req_idx, r_eq, k

langevin == <<r_vs_t, v_vs_t, e_vs_t, temp_vs_t, t_array>>
bbkvars == <<result_array, bbk_args, bbk_calls, rp_hist>>
mcvars == <<r_accepted_array, num_accepted_r, r_prev, r_trial, p, u,
            accepted, r_av_mc>>
inputs == <<N_updates, r_init, v_init, rp_init, E_tab, eqcell>>
vars == <<pc, i, inputs, langevin, bbkvars, mean_r, mcvars>>

(***************************************************************************)
(* Cells 3-5 up to the first BBK call: the initial state is drawn, the     *)
(* trajectory arrays are allocated and entry 0 is filled.                  *)
(***************************************************************************)
Init ==
    /\ N_updates \in 1..MaxUpdates
    /\ r_init \in RInits
    /\ v_init \in VInits
    /\ rp_init \in {RpScale(temperature, gamma, mu, dt) * z : z \in ForceDraws}
    /\ pc = "first_bbk"
    /\ i = 0
    /\ r_vs_t = [Zeros(N_updates) EXCEPT ![0] = r_init]
    /\ v_vs_t = [Zeros(N_updates) EXCEPT ![0] = v_init]
    /\ e_vs_t = [Zeros(N_updates) EXCEPT ![0] = TotalEnergy(r_init, v_init)]
    /\ temp_vs_t = [Zeros(N_updates) EXCEPT ![0] = InstTemperature(v_init)]
    /\ t_array = Zeros(N_updates)
    /\ result_array = <<0, 0, 0>>
    /\ bbk_args = <<0, 0, 0>>
    /\ bbk_calls = 0
    /\ rp_hist = <<>>
    /\ mean_r = Ratio("nan", 0, 1)
    /\ r_accepted_array = <<>>
    /\ num_accepted_r = 0
    /\ r_prev = 0
    /\ r_trial = 0
    /\ p = Ratio("nan", 0, 1)
    /\ u = 0
    /\ accepted = FALSE
    /\ r_av_mc = Ratio("nan", 0, 1)
    /\ E_tab = E_fine
    /\ eqcell = [at |-> "done", minE |-> minE, Req_idx |-> Req_idx,
                 r_eq |-> r_eq, k |-> k]

\* result_array = BBK(r_init, v_init, rp_init, ...)
FirstBBK ==
    /\ pc = "first_bbk"
    /\ \E z \in ForceDraws :
        /\ result_array' =
               BBK(r_init, v_init, rp_init, gamma, temperature, mu, dt, z)
        /\ rp_hist' =
               Append(rp_hist, RpScale(temperature, gamma, mu, dt) * z)
    /\ bbk_args' = <<r_init, v_init, rp_init>>
    /\ bbk_calls' = bbk_calls + 1
    /\ i' = 1
    /\ pc' = "bbk_loop"
    /\ UNCHANGED <<inputs, langevin, mean_r, mcvars>>

\* range(lo, hi) taken to include hi
InRangeInclusive(j, lo, hi) == lo <= j /\ j <= hi

\* j in range(lo, hi)
InRange(j, lo, hi) == lo <= j /\ j < hi

\* one pass of the Langevin loop
LangevinStep ==
    /\ pc = "bbk_loop"
    /\ InRange(i, 1, N_updates)
    /\ \E z \in ForceDraws :
        /\ result_array' =
               BBK(result_array[1], result_array[2], result_array[3],
                   gamma, temperature, mu, dt, z)
        /\ rp_hist' =
               Append(rp_hist, RpScale(temperature, gamma, mu, dt) * z)
    /\ bbk_args' = result_array
    /\ bbk_calls' = bbk_calls + 1
    /\ t_array' = [t_array EXCEPT ![i] = dt * i]
    /\ r_vs_t' = [r_vs_t EXCEPT ![i] = result_array'[1]]
    /\ v_vs_t' = [v_vs_t EXCEPT ![i] = result_array'[2]]
    /\ e_vs_t' = [e_vs_t EXCEPT
                     ![i] = TotalEnergy(result_array'[1], result_array'[2])]
    /\ temp_vs_t' = [temp_vs_t EXCEPT ![i] = InstTemperature(result_array'[2])]
    /\ i' = i + 1
    /\ UNCHANGED <<pc, inputs, mean_r, mcvars>>

\* the window taken one entry too long
MeanWindowOneMore(n) == PySlice(n - Window - 1, n, n)

\* r_vs_t[(N_updates-30000):N_updates]
MeanWindow(n) == PySlice(n - Window, n, n)

\* the loop is exhausted: the mean bond length of the window is printed
LangevinReport ==
    /\ pc = "bbk_loop"
    /\ ~InRange(i, 1, N_updates)
    /\ mean_r' = MeanAngstrom(r_vs_t, MeanWindow(N_updates))
    /\ pc' = "mc_init"
    /\ UNCHANGED <<i, inputs, langevin, bbkvars, mcvars>>

(***************************************************************************)
(* The Metropolis Monte-Carlo cell.                                        *)
(***************************************************************************)
\* the sampler started where the Langevin run ended
MetropolisStartFromTrajectory == result_array[1]

\* r_prev = r_init: where the sampler starts
MetropolisStart == r_init

\* r_accepted_array = np.zeros(N_updates); num_accepted_r = 0; r_prev = ...
MetropolisSetup ==
    /\ pc = "mc_init"
    /\ r_accepted_array' = Zeros(N_updates)
    /\ num_accepted_r' = 0
    /\ r_prev' = MetropolisStart
    /\ i' = 0
    /\ pc' = "mc_loop"
    /\ UNCHANGED <<inputs, langevin, bbkvars, mean_r, r_trial, p, u,
                   accepted, r_av_mc>>

\* the ratio with the unshifted spline in the denominator
AcceptanceRatioMixedSplines(trial, prev) ==
    FDiv(ExpBoltzmann(E_spline_shifted(trial)), ExpBoltzmann(E_spline(prev)))

\* p = np.exp(-E_spline_shifted(r_trial)/temperature)
\*       / np.exp(-E_spline_shifted(r_prev)/temperature)
AcceptanceRatio(trial, prev) ==
    FDiv(ExpBoltzmann(E_spline_shifted(trial)),
         ExpBoltzmann(E_spline_shifted(prev)))

\* the test with <= for <
AcceptsOrEqual(n, q) ==
    IF q.kind = "nan" THEN FALSE
    ELSE IF q.kind = "inf" THEN TRUE
    ELSE n * q.den <= UDen * q.num

\* np.random.uniform() < p, for the draw n / UDen
Accepts(n, q) == ULess(n, q)

\* one pass of the Metropolis loop: z is the normal draw, n / UDen the
\* uniform draw
MetropolisStep ==
    /\ pc = "mc_loop"
    /\ InRange(i, 0, N_updates)
    /\ \E z \in StepDraws, n \in 0..(UDen - 1) :
        /\ r_trial' = r_prev + z
        /\ p' = AcceptanceRatio(r_trial', r_prev)
        /\ u' = n
        /\ accepted' = Accepts(n, p')
        /\ IF accepted'
           THEN /\ r_accepted_array' =
                       [r_accepted_array EXCEPT ![num_accepted_r] = r_trial']
                /\ num_accepted_r' = num_accepted_r + 1
           ELSE UNCHANGED <<r_accepted_array, num_accepted_r>>
    /\ i' = i + 1
    /\ UNCHANGED <<pc, inputs, langevin, bbkvars, mean_r, r_prev, r_av_mc>>

\* r_av_mc = np.mean(r_accepted_array[0:num_accepted_r])
MetropolisReport ==
    /\ pc = "mc_loop"
    /\ ~InRange(i, 0, N_updates)
    /\ r_av_mc' = Mean(r_accepted_array,
                       PySlice(0, num_accepted_r, N_updates))
    /\ pc' = "done"
    /\ UNCHANGED <<i, inputs, langevin, bbkvars, mean_r,
                   r_accepted_array, num_accepted_r, r_prev, r_trial, p, u,
                   accepted>>

Next ==
    \/ FirstBBK
    \/ LangevinStep
    \/ LangevinReport
    \/ MetropolisSetup
    \/ MetropolisStep
    \/ MetropolisReport

Spec == Init /\ [][Next]_vars

(***************************************************************************)
(* Cell 2 on its own: the equilibrium bond length and the spring constant  *)
(* of an arbitrary array of interpolated energies.                         *)
(***************************************************************************)
\* the values an entry of E_fine takes
Levels == {E_spline(4) + 2 * j : j \in 0..MaxLevel}

later == <<pc, i, N_updates, r_init, v_init, rp_init, langevin, bbkvars,
           mean_r, mcvars>>

\* E_fine has been evaluated; nothing else has run
EqInit ==
    /\ E_tab \in [r_fine -> Levels]
    /\ eqcell = [at |-> "min", minE |-> 0, Req_idx |-> 0, r_eq |-> 0, k |-> 0]
    /\ pc = "cell2"
    /\ i = 0
    /\ N_updates = 1
    /\ r_init = 0
    /\ v_init = 0
    /\ rp_init = 0
    /\ r_vs_t = Zeros(1)
    /\ v_vs_t = Zeros(1)
    /\ e_vs_t = Zeros(1)
    /\ temp_vs_t = Zeros(1)
    /\ t_array = Zeros(1)
    /\ result_array = <<0, 0, 0>>
    /\ bbk_args = <<0, 0, 0>>
    /\ bbk_calls = 0
    /\ rp_hist = <<>>
    /\ mean_r = Ratio("nan", 0, 1)
    /\ r_accepted_array = <<>>
    /\ num_accepted_r = 0
    /\ r_prev = 0
    /\ r_trial = 0
    /\ p = Ratio("nan", 0, 1)
    /\ u = 0
    /\ accepted = FALSE
    /\ r_av_mc = Ratio("nan", 0, 1)

\* minE = min(E_fine)
EqMin ==
    /\ eqcell.at = "min"
    /\ eqcell' = [eqcell EXCEPT !.at = "argmin", !.minE = MinOf(E_tab)]
    /\ UNCHANGED <<E_tab, later>>

\* Req_idx = np.argmin(E_fine); r_eq = r_fine[Req_idx]
EqArgmin ==
    /\ eqcell.at = "argmin"
    /\ eqcell' = [eqcell EXCEPT !.at = "spring",
                                !.Req_idx = ArgMin(E_tab),
                                !.r_eq = GridPoint(ArgMin(E_tab))]
    /\ UNCHANGED <<E_tab, later>>

\* k = cE(r_eq)
EqSpring ==
    /\ eqcell.at = "spring"
    /\ eqcell' = [eqcell EXCEPT !.at = "done", !.k = cE(eqcell.r_eq)]
    /\ UNCHANGED <<E_tab, later>>

EqNext == EqMin \/ EqArgmin \/ EqSpring

EqSpec == EqInit /\ [][EqNext]_vars

(***************************************************************************)
(* Properties.                                                             *)
(***************************************************************************)
InMetropolis == pc \in {"mc_loop", "done"}
TrialMade == InMetropolis /\ i >= 1

\* the sampler's current position: the most recently accepted trial, r_init
\* before any acceptance
CurrentPosition ==
    IF num_accepted_r = 0 THEN r_init
    ELSE r_accepted_array[num_accepted_r - 1]

\* C1: in the Metropolis loop the position trials are proposed from and
\* compared against, r_prev, is the most recently accepted trial (r_init
\* before any acceptance), so that the accepted moves form a chain.
C1_ChainOfAcceptedMoves ==
    InMetropolis => r_prev = CurrentPosition

\* 2^((e_trial - e_prev)/temperature), the reciprocal of the exact
\* Boltzmann ratio of a trial whose energy is higher
UphillFactor(e_trial, e_prev) == Pow2((e_trial - e_prev) \div temperature)

\* C2: a trial is accepted exactly when the uniform draw is below
\* p = exp(-E(r_trial)/T) / exp(-E(r_prev)/T); a trial whose energy is not
\* higher than that of r_prev is accepted whatever the draw, and a trial of
\* higher energy is accepted only when the draw is below the Boltzmann ratio.
C2_AcceptanceRule ==
    TrialMade =>
        LET e_trial == E_spline_shifted(r_trial)
            e_prev  == E_spline_shifted(r_prev)
        IN  /\ p = FDiv(ExpBoltzmann(e_trial), ExpBoltzmann(e_prev))
            /\ accepted <=> ULess(u, p)
            /\ e_trial <= e_prev => accepted
            /\ (e_trial > e_prev /\ accepted) =>
                   u * UphillFactor(e_trial, e_prev) < UDen
            /\ accepted =>
                   /\ num_accepted_r >= 1
                   /\ r_accepted_array[num_accepted_r - 1] = r_trial

\* a trial of higher energy was accepted on a draw u > 0, and the draw
\* below it would have been the last one accepted
C2_Witness ==
    /\ TrialMade
    /\ accepted
    /\ u > 0
    /\ E_spline_shifted(r_trial) > E_spline_shifted(r_prev)
    /\ ~ULess(u + 1, p)

\* the half-kick / drift / half-kick form of one BBK update
HalfKickDriftHalfKick(r, vel, rp, rp_fut) ==
    LET a_curr == ((0 - fE(r)) + rp) \div mu - gamma * vel
        v_half == vel + (a_curr * dt) \div 2
        r_fut  == r + dt * v_half
        a_fut  == ((0 - fE(r_fut)) + rp_fut) \div mu
        v_fut  == (v_half + (a_fut * dt) \div 2) \div (1 + (gamma * dt) \div 2)
    IN  <<r_fut, v_fut>>

\* C3: a BBK call returns r_fut = r + dt*v_half and
\* v_fut = (v_half + 0.5*a_fut*dt)/(1 + 0.5*gamma*dt), with
\* a_curr = (-f(r) + rp)/mu - gamma*v, v_half = v + 0.5*a_curr*dt and a
\* drag-free a_fut = (-f(r_fut) + rp_fut)/mu.
C3_BBKIsHalfKickDriftHalfKick ==
    bbk_calls >= 1 =>
        <<result_array[1], result_array[2]>> =
            HalfKickDriftHalfKick(bbk_args[1], bbk_args[2], bbk_args[3],
                                  result_array[3])

\* a call on a moving molecule away from the minimum, which moved it
C3_Witness ==
    /\ bbk_calls >= 2
    /\ bbk_args[2] # 0
    /\ bbk_args[1] # r_eq
    /\ result_array[1] # bbk_args[1]
    /\ result_array[2] # bbk_args[2]

\* C4: every BBK call draws exactly one perturbation, computes a_fut from
\* it and returns it, and receives as rp_curr the perturbation the call
\* before it returned (rp_init for the first call).
C4_PerturbationThreaded ==
    /\ Len(rp_hist) = bbk_calls
    /\ bbk_calls >= 1 =>
        /\ result_array[3] = rp_hist[bbk_calls]
        /\ bbk_args[3] =
               (IF bbk_calls = 1 THEN rp_init ELSE rp_hist[bbk_calls - 1])
        /\ LET a_curr == ((0 - fE(bbk_args[1])) + bbk_args[3]) \div mu
                             - gamma * bbk_args[2]
               a_fut  == ((0 - fE(result_array[1])) + rp_hist[bbk_calls])
                             \div mu
           IN  result_array[2] =
                   (bbk_args[2] + ((a_curr + a_fut) * dt) \div 2)
                       \div (1 + (gamma * dt) \div 2)

\* three calls whose perturbations are not all the same
C4_Witness ==
    /\ bbk_calls >= 3
    /\ rp_hist[bbk_calls] # rp_hist[bbk_calls - 1]
    /\ rp_hist[bbk_calls - 1] # rp_hist[bbk_calls - 2]
    /\ bbk_args[3] = rp_hist[bbk_calls - 1]

RECURSIVE StateAfter(_)
\* the molecule after exactly j BBK updates of (r_init, v_init, rp_init),
\* under the perturbations that were drawn
StateAfter(j) ==
    IF j = 0 THEN <<r_init, v_init, rp_init>>
    ELSE LET s == StateAfter(j - 1)
         IN  BBKUpdate(s[1], s[2], s[3], gamma, mu, dt, rp_hist[j])

\* the entries of the trajectory arrays written so far
Stored == {j \in 0..(N_updates - 1) : j = 0 \/ j < bbk_calls}

\* C5: entry j of the trajectory holds the molecule at time j*dt, the
\* result of exactly j BBK updates of the initial state, and its energy and
\* temperature.
C5_EntryIsStateAfterThatManyUpdates ==
    \A j \in Stored :
        /\ r_vs_t[j] = StateAfter(j)[1]
        /\ v_vs_t[j] = StateAfter(j)[2]
        /\ t_array[j] = j * dt
        /\ e_vs_t[j] = TotalEnergy(r_vs_t[j], v_vs_t[j])
        /\ temp_vs_t[j] = InstTemperature(v_vs_t[j])

\* r_vs_t[1] holds the molecule after two updates, not one
C5_Witness ==
    /\ bbk_calls >= 2
    /\ r_vs_t[1] = StateAfter(2)[1]
    /\ r_vs_t[1] # StateAfter(1)[1]

InLangevin == pc \in {"first_bbk", "bbk_loop"}

\* C6: the Langevin driver makes exactly N_updates BBK calls, one before
\* the loop and N_updates-1 inside it, whatever the positions, velocities
\* and perturbations are, and then ends: every call counts towards the
\* N_updates, and the driver is never stuck before it has ended.
C6_ExactlyNUpdatesCalls ==
    /\ bbk_calls <= N_updates
    /\ pc = "first_bbk" => bbk_calls = 0
    /\ pc = "bbk_loop" => bbk_calls = i
    /\ ~InLangevin => bbk_calls = N_updates
    /\ InLangevin => ENABLED (FirstBBK \/ LangevinStep \/ LangevinReport)

\* the driver has finished a run of the largest length
C6_Witness ==
    /\ pc = "mc_init"
    /\ N_updates = MaxUpdates
    /\ bbk_calls = N_updates
    /\ r_vs_t[N_updates - 1] # r_init

Fitted == RMin..RMax

\* C7: neither loop has an error, abort, clamp or reset outcome: the
\* position a BBK call returns is the one its formula gives, inside the
\* fitted interval or not, it is stored and handed to the next call as it
\* is, a trial position goes to the spline as it is, and both loops run
\* to their fixed iteration count.
C7_DivergenceUnmanaged ==
    /\ pc \in {"first_bbk", "bbk_loop", "mc_init", "mc_loop", "done"}
    /\ bbk_calls >= 1 =>
        LET a_curr == ((0 - fE(bbk_args[1])) + bbk_args[3]) \div mu
                          - gamma * bbk_args[2]
        IN  result_array[1] =
                bbk_args[1] + bbk_args[2] * dt + (a_curr * dt * dt) \div 2
    /\ bbk_calls >= 2 =>
        /\ r_vs_t[bbk_calls - 1] = result_array[1]
        /\ bbk_args[1] = StateAfter(bbk_calls - 1)[1]
        /\ bbk_calls >= 3 => bbk_args[1] = r_vs_t[bbk_calls - 2]
    /\ TrialMade =>
        /\ r_trial - r_prev \in StepDraws
        /\ p = FDiv(ExpBoltzmann(E_spline(r_trial) + 100),
                    ExpBoltzmann(E_spline(r_prev) + 100))
        /\ accepted => r_accepted_array[num_accepted_r - 1] = r_trial
    /\ pc = "mc_loop" => i <= N_updates
    /\ pc = "done" => bbk_calls = N_updates /\ i = N_updates

\* a run to the end in which the molecule left the fitted interval, the
\* next update started from that position, and the last trial lay outside
\* the interval too
C7_Witness ==
    /\ pc = "done"
    /\ N_updates >= 3
    /\ r_vs_t[1] \notin Fitted
    /\ bbk_args[1] = r_vs_t[1]
    /\ r_trial \notin Fitted

\* what one pass of the Metropolis loop makes of the sampler's own state
\* and its own two draws: the trial and the uniform draw n / UDen
SamplerStep(prev, arr, num, trial, n) ==
    LET q == FDiv(ExpBoltzmann(E_spline_shifted(trial)),
                  ExpBoltzmann(E_spline_shifted(prev)))
    IN  IF ULess(n, q) THEN <<[arr EXCEPT ![num] = trial], num + 1, prev>>
                       ELSE <<arr, num, prev>>

C8_Step ==
    /\ (pc = "mc_init" /\ pc' = "mc_loop") =>
        /\ r_prev' = r_init
        /\ num_accepted_r' = 0
        /\ r_accepted_array' = Zeros(N_updates)
    /\ (pc = "mc_loop" /\ pc' = "mc_loop") =>
        /\ r_trial' - r_prev \in StepDraws
        /\ u' \in 0..(UDen - 1)
        /\ <<r_accepted_array', num_accepted_r', r_prev'>> =
               SamplerStep(r_prev, r_accepted_array, num_accepted_r,
                           r_trial', u')
    /\ (pc = "mc_loop" /\ pc' = "done") =>
        /\ r_av_mc' = Mean(r_accepted_array, 0..(num_accepted_r - 1))
        /\ UNCHANGED <<r_accepted_array, num_accepted_r>>
    /\ pc \in {"mc_init", "mc_loop"} =>
        UNCHANGED <<r_vs_t, v_vs_t, e_vs_t, temp_vs_t, t_array,
                    N_updates, r_init>>

\* C8: the Metropolis sampler is independent of the Langevin run.  It
\* starts from r_init, every pass is a function of the sampler's own state
\* and its own draws (so two runs that agree on r_init, the energies,
\* temperature, N_updates and those draws produce the same
\* r_accepted_array, num_accepted_r and r_av_mc whatever the trajectory
\* was), and it leaves r_vs_t, v_vs_t, e_vs_t, temp_vs_t and t_array
\* unchanged.
C8_MetropolisIndependent == [][C8_Step]_vars

\* the sampler ran to the end and accepted a trial, after a Langevin run
\* that ended away from r_init
C8_Witness ==
    /\ pc = "done"
    /\ N_updates >= 2
    /\ num_accepted_r >= 1
    /\ result_array[1] # r_init
    /\ r_vs_t[N_updates - 1] # r_init
    /\ r_av_mc.kind = "fin"

\* the last Window entries of the trajectory
LastEntries == (N_updates - Window)..(N_updates - 1)

\* C9 as stated: for every N_updates the reported mean is the average of
\* exactly the last 30000 entries of r_vs_t.
C9_MeanOfLastWindowAnyLength ==
    ~InLangevin =>
        /\ mean_r.kind = "fin"
        /\ mean_r.den = 189 * Window
        /\ N_updates >= Window =>
               mean_r.num = 100 * SumOver(r_vs_t, LastEntries)

\* C9: for N_updates >= 30000 the reported mean is the average of exactly
\* the last 30000 entries of r_vs_t, indices N_updates-30000 ..
\* N_updates-1, and for N_updates > 30000 the window leaves out index 0.
C9_MeanOfLastWindow ==
    (~InLangevin /\ N_updates >= Window) =>
        /\ mean_r = Ratio("fin", 100 * SumOver(r_vs_t, LastEntries),
                          189 * Window)
        /\ MeanWindow(N_updates) = LastEntries
        /\ N_updates > Window => 0 \notin MeanWindow(N_updates)

\* a trajectory longer than the window whose first entry would change the
\* mean
C9_Witness ==
    /\ pc = "done"
    /\ N_updates > Window
    /\ mean_r.den = 189 * Window
    /\ r_vs_t[0] # r_vs_t[N_updates - Window]
    /\ r_vs_t[0] # r_vs_t[N_updates - 1]

\* energy shifts: none, the notebook's +100 and its neighbours
Shifts == {0, 98, 100, 102, 104}

Normal(a) == a.kind = "fin" /\ a.n > 0

\* the acceptance decision for the last trial with np.exp taken of the
\* energies shifted by c
DecisionWithShift(c) ==
    ULess(u, FDiv(ExpBoltzmann(E_spline(r_trial) + c),
                  ExpBoltzmann(E_spline(r_prev) + c)))

\* E_fine + c
ShiftedBy(c) == [r \in r_fine |-> E_fine[r] + c]

\* the thermal average with the energies shifted by c
AverageWithShift(c) == ThermalAverage(ShiftedBy(c))

SameRatio(a, b) ==
    /\ a.kind = "fin"
    /\ b.kind = "fin"
    /\ a.num * b.den = b.num * a.den

\* r_av computed from E_fine
AverageUnshifted == AverageWithShift(0)

\* C10 as stated: the acceptance decision is the same with the unshifted
\* energies as with the shifted ones, and r_av computed from E_fine equals
\* r_av computed from E_shifted.
C10_ShiftChangesNothing ==
    TrialMade =>
        /\ accepted = DecisionWithShift(0)
        /\ SameRatio(r_av, AverageUnshifted)

\* np.exp is finite and non-zero at both positions of the last trial
NormalAtTrial(c) ==
    /\ Normal(ExpBoltzmann(E_spline(r_trial) + c))
    /\ Normal(ExpBoltzmann(E_spline(r_prev) + c))

\* np.exp is finite and non-zero all over the grid, and so are the sums
NormalOnGrid(c) ==
    /\ \A r \in r_fine : Normal(ExpBoltzmann(ShiftedBy(c)[r]))
    /\ Normal(SumWeights(ShiftedBy(c), RMin, RMax))
    /\ Normal(SumWeighted(ShiftedBy(c), RMin, RMax))

\* every shift that keeps the exponentials finite and non-zero all over the
\* grid gives the thermal average of the +100 shift
AverageShiftInvariantWhileFinite ==
    \A c \in Shifts :
        (NormalOnGrid(c) /\ NormalOnGrid(100)) =>
            SameRatio(r_av, AverageWithShift(c))

\* another shift under which the average can be computed
AverageComparable == NormalOnGrid(100) /\ NormalOnGrid(98)

\* C10: as long as np.exp neither overflows nor underflows, the acceptance
\* decision depends on the energy difference alone and r_av does not depend
\* on the shift: any shift that keeps the exponentials finite and non-zero
\* gives the decision and the thermal average of the +100 shift.
C10_ShiftInvariantWhileFinite ==
    TrialMade =>
        /\ \A c \in Shifts :
               (NormalAtTrial(c) /\ NormalAtTrial(100)) =>
                   accepted = DecisionWithShift(c)
        /\ AverageShiftInvariantWhileFinite

\* an uphill trial accepted on a draw u > 0, where another shift keeps the
\* exponentials finite, and the unshifted energies do not
C10_Witness ==
    /\ TrialMade
    /\ accepted
    /\ u > 0
    /\ E_spline(r_trial) > E_spline(r_prev)
    /\ NormalAtTrial(100)
    /\ NormalAtTrial(98)
    /\ AverageComparable
    /\ ~NormalAtTrial(0)

\* C11: r_eq is the grid point at which the interpolated energy is
\* smallest, r_eq = r_fine[j] with E_fine[j] = minE <= E_fine[i] for every
\* i, j the smallest such index when several grid points tie, and k is the
\* second derivative of the spline at that same r_eq.
C11_EquilibriumIsFirstMinimum ==
    /\ eqcell.at \in {"argmin", "spring", "done"} =>
        \A r \in r_fine : eqcell.minE <= E_tab[r]
    /\ eqcell.at \in {"spring", "done"} =>
        LET j == eqcell.Req_idx
        IN  /\ j \in 0..(RMax - RMin)
            /\ eqcell.r_eq = RMin + j
            /\ E_tab[eqcell.r_eq] = eqcell.minE
            /\ \A r \in r_fine :
                   E_tab[r] = eqcell.minE => eqcell.r_eq <= r
    /\ eqcell.at = "done" =>
        eqcell.k = cE(eqcell.r_eq)

\* the minimum is taken at two grid points on either side of the kink of
\* the spline, neither the first of the grid, and k is the curvature at the
\* lower one
C11_Witness ==
    /\ eqcell.at = "done"
    /\ pc = "cell2"
    /\ eqcell.r_eq = 3
    /\ eqcell.Req_idx = 0
    /\ E_tab[5] = eqcell.minE
    /\ E_tab[4] > eqcell.minE
    /\ eqcell.k = 8

=============================================================================
